---- MODULE Spec2Model ----
(***************************************************************************)
(* Model of the desk-research pipeline of app/research_engine.py:          *)
(* fetch_arxiv_papers -> store_in_qdrant -> search_relevant_docs ->        *)
(* generate_report, sequenced by run_full_research.                        *)
(*                                                                         *)
(* Text is a sequence of tokens.  A token is one character ("a", " ",      *)
(* "2", "-", "T") or one whole markup tag ("<entry>", "<title>", ...), so  *)
(* str.split on a tag is a split on one token.  No token is a prefix of    *)
(* another, hence comparing token sequences lexicographically by Code is   *)
(* Python's string comparison.                                             *)
(***************************************************************************)
EXTENDS Integers, Sequences, FiniteSets, TLC

VARIABLES
    collection,  \* does the collection "research_docs" exist in Qdrant
    index,       \* points of the collection: id -> [vector, payload]
    call,        \* the last direct call of an engine method and its outcome
    pc,          \* run -> position of that run inside run_full_research
    query,       \* run -> query of the run
    papers,      \* run -> papers returned by fetch_arxiv_papers
    relevant,    \* run -> documents returned by search_relevant_docs
    report,      \* run -> text returned by generate_report
    result,      \* run -> dict returned by run_full_research
    log          \* run -> external calls attempted by the run, in order

vars == <<collection, index, call, pc, query, papers, relevant, report, result, log>>

(***************************************************************************)
(* Bounds of the model                                                     *)
(***************************************************************************)
MaxEntries == 1      \* entries of a feed handed to fetch_arxiv_papers directly
MaxDocs    == 3      \* points of the collection when a method is called directly
MaxBatch   == 2      \* documents handed to store_in_qdrant directly
MaxTopK    == 3      \* top_k handed to search_relevant_docs directly
MaxFeed    == 21     \* entries of the feed the bibliographic API serves a run

(***************************************************************************)
(* Python string and list primitives                                       *)
(***************************************************************************)
Min(a, b) == IF a < b THEN a ELSE b

Take(s, n) == SubSeq(s, 1, Min(n, Len(s)))

Drop(s, n) == SubSeq(s, n + 1, Len(s))

Whitespace == {" ", "\n"}

\* position of the first occurrence of tok in s, 0 when there is none
RECURSIVE Find(_, _, _)
Find(s, tok, i) ==
    IF i > Len(s) THEN 0
    ELSE IF s[i] = tok THEN i
    ELSE Find(s, tok, i + 1)

\* s.split(tok): the pieces of s between the occurrences of tok
RECURSIVE Split(_, _)
Split(s, tok) ==
    LET i == Find(s, tok, 1)
    IN  IF i = 0 THEN <<s>>
        ELSE <<SubSeq(s, 1, i - 1)>> \o Split(Drop(s, i), tok)

RECURSIVE LStrip(_)
LStrip(s) ==
    IF s # <<>> /\ s[1] \in Whitespace THEN LStrip(Tail(s)) ELSE s

RECURSIVE RStrip(_)
RStrip(s) ==
    IF s # <<>> /\ s[Len(s)] \in Whitespace THEN RStrip(SubSeq(s, 1, Len(s) - 1)) ELSE s

\* s.strip()
Strip(s) == LStrip(RStrip(s))

\* ' '.join(s.split()): runs of whitespace collapse to one blank, none at the ends
RECURSIVE JoinWords(_)
JoinWords(s) ==
    LET t == LStrip(s)
    IN  IF t = <<>> THEN <<>>
        ELSE IF Len(t) > 1 /\ t[2] \in Whitespace
             THEN IF LStrip(Tail(t)) = <<>> THEN <<t[1]>>
                  ELSE <<t[1], " ">> \o JoinWords(Tail(t))
             ELSE <<t[1]>> \o JoinWords(Tail(t))

\* code point order of the tokens; tags begin with "<" (60) and are ordered
\* among themselves as their spellings are
Code(tok) ==
    CASE tok = "\n" -> 1000
      [] tok = " "  -> 3200
      [] tok = "-"  -> 4500
      [] tok = "0"  -> 4800
      [] tok = "1"  -> 4900
      [] tok = "2"  -> 5000
      [] tok = "3"  -> 5100
      [] tok = "4"  -> 5200
      [] tok = "5"  -> 5300
      [] tok = "6"  -> 5400
      [] tok = "7"  -> 5500
      [] tok = "8"  -> 5600
      [] tok = "9"  -> 5700
      [] tok = "</id>"        -> 6001
      [] tok = "</published>" -> 6002
      [] tok = "</summary>"   -> 6003
      [] tok = "</title>"     -> 6004
      [] tok = "<entry>"      -> 6005
      [] tok = "<id>"         -> 6006
      [] tok = "<published>"  -> 6007
      [] tok = "<summary>"    -> 6008
      [] tok = "<title>"      -> 6009
      [] tok = "T"  -> 8400
      [] tok = "Z"  -> 9000
      [] tok = "a"  -> 9700
      [] tok = "b"  -> 9800
      [] tok = "k"  -> 10700
      [] tok = "n"  -> 11000
      [] tok = "o"  -> 11100
      [] tok = "p"  -> 11200
      [] tok = "u"  -> 11700
      [] tok = "w"  -> 11900

\* s < t for Python strings
RECURSIVE StrLess(_, _)
StrLess(s, t) ==
    IF t = <<>> THEN FALSE
    ELSE IF s = <<>> THEN TRUE
    ELSE IF s[1] # t[1] THEN Code(s[1]) < Code(t[1])
    ELSE StrLess(Tail(s), Tail(t))

\* an insertion that puts a document ahead of its equals, as sorting ascending
\* and reversing the list afterwards would
RECURSIVE InsertByDate_Reversing(_, _)
InsertByDate_Reversing(sorted, doc) ==
    IF sorted = <<>> THEN <<doc>>
    ELSE IF ~StrLess(doc.published_date, sorted[1].published_date)
         THEN <<doc>> \o sorted
         ELSE <<sorted[1]>> \o InsertByDate_Reversing(Tail(sorted), doc)

\* list.sort(key=lambda x: x['published_date'], reverse=True): a stable sort,
\* documents with equal keys keep their order
RECURSIVE InsertByDate(_, _)
InsertByDate(sorted, doc) ==
    IF sorted = <<>> THEN <<doc>>
    ELSE IF StrLess(sorted[1].published_date, doc.published_date)
         THEN <<doc>> \o sorted
         ELSE <<sorted[1]>> \o InsertByDate(Tail(sorted), doc)

RECURSIVE SortByDateDesc(_)
SortByDateDesc(docs) ==
    IF docs = <<>> THEN <<>>
    ELSE InsertByDate(SortByDateDesc(SubSeq(docs, 1, Len(docs) - 1)), docs[Len(docs)])

(***************************************************************************)
(* Collaborator calls.  Every engine method is modelled by an operator     *)
(* that returns what the method returns (ret), the index it leaves behind  *)
(* and the collaborator calls it attempted, in order (calls).              *)
(***************************************************************************)
Called(svc, ok) == [svc |-> svc, ok |-> ok]

\* the calls that leave the process: bibliographic API, vector index, LLM
External == {"arxiv", "qdrant.upsert", "qdrant.search", "groq"}

\* the calls that go to the vector index service
IndexCalls == {"qdrant.get_collection", "qdrant.create_collection",
               "qdrant.upsert", "qdrant.search"}

(***************************************************************************)
(* fetch_arxiv_papers                                                      *)
(***************************************************************************)
MaxSummary == 800

\* a response of the bibliographic API: status "ok" carries the feed text,
\* any other status (connection error, timeout, HTTP error) raises in
\* requests.get / raise_for_status
Response(status, text) == [status |-> status, text |-> text]

\* entry.split(open)[1].split(close)[0]; IndexError when open does not occur
FieldRaises(entry, open) == Len(Split(entry, open)) < 2

Field(entry, open, close) == Split(Split(entry, open)[2], close)[1]

\* the body of the per-entry try block: does any of the four extractions raise
EntryRaises(entry) ==
    \/ FieldRaises(entry, "<title>")
    \/ FieldRaises(entry, "<summary>")
    \/ FieldRaises(entry, "<id>")
    \/ FieldRaises(entry, "<published>")

ParseEntry(entry) ==
    [ title          |-> JoinWords(Strip(Field(entry, "<title>", "</title>"))),
      content        |-> Take(JoinWords(Strip(Field(entry, "<summary>", "</summary>"))), MaxSummary),
      url            |-> Strip(Field(entry, "<id>", "</id>")),
      source         |-> "arXiv",
      published_date |-> Split(Strip(Field(entry, "<published>", "</published>")), "T")[1] ]

RECURSIVE ParseEntries(_)
ParseEntries(entries) ==
    IF entries = <<>> THEN <<>>
    ELSE IF EntryRaises(entries[1]) THEN ParseEntries(Tail(entries))
    ELSE <<ParseEntry(entries[1])>> \o ParseEntries(Tail(entries))

fetch_arxiv_papers(response) ==
    IF response.status # "ok"
    THEN [ret |-> <<>>, calls |-> <<Called("arxiv", FALSE)>>]
    ELSE [ret   |-> SortByDateDesc(ParseEntries(Tail(Split(response.text, "<entry>")))),
          calls |-> <<Called("arxiv", TRUE)>>]

(***************************************************************************)
(* Embedding Encoder and similarity score.  The encoder maps a text to the *)
(* number of occurrences of each keyword; the index scores a point by the  *)
(* dot product with the query vector, in tenths, capped at 1.0.            *)
(***************************************************************************)
Keywords == {"a", "b"}

RECURSIVE Count(_, _)
Count(k, text) ==
    IF text = <<>> THEN 0
    ELSE (IF text[1] = k THEN 1 ELSE 0) + Count(k, Tail(text))

Embed(text) == [k \in Keywords |-> Count(k, text)]

Score(qv, v) == Min(10, 3 * (qv["a"] * v["a"] + qv["b"] * v["b"]))

(***************************************************************************)
(* Vector index: a function from point ids to points                       *)
(***************************************************************************)
EmptyIndex == << >>

Ids(idx) == DOMAIN idx

\* client.upsert: writes or overwrites the points by id
Upsert(idx, points) ==
    [i \in Ids(idx) \cup Ids(points) |->
        IF i \in Ids(points) THEN points[i] ELSE idx[i]]

\* the ids of idx in the order the index returns them: by score descending,
\* equal scores in an order the service chooses (tie: by id up or down)
Before(idx, qv, tie, i, j) ==
    LET si == Score(qv, idx[i].vector)
        sj == Score(qv, idx[j].vector)
    IN  \/ si > sj
        \/ si = sj /\ (IF tie = "up" THEN i < j ELSE i > j)

RECURSIVE Ranked(_, _, _, _)
Ranked(idx, qv, tie, ids) ==
    IF ids = {} THEN <<>>
    ELSE LET first == CHOOSE i \in ids : \A j \in ids \ {i} : Before(idx, qv, tie, i, j)
         IN  <<first>> \o Ranked(idx, qv, tie, ids \ {first})

\* client.search: up to limit hits, best score first
Search(idx, qv, limit, tie) ==
    LET order == Take(Ranked(idx, qv, tie, Ids(idx)), limit)
    IN  [n \in 1..Len(order) |->
            [payload |-> idx[order[n]].payload,
             score   |-> Score(qv, idx[order[n]].vector)]]

(***************************************************************************)
(* _setup_collection                                                       *)
(***************************************************************************)
\* the setup written with recreate_collection: an existing collection is
\* dropped and created again
_setup_collection_Recreate(coll, idx) ==
    [collection |-> TRUE, index |-> EmptyIndex, raised |-> FALSE,
     calls |-> <<Called("qdrant.get_collection", coll),
                 Called("qdrant.create_collection", TRUE)>>]

\* get_collection raises when the collection does not exist; the bare except
\* then creates it, empty
_setup_collection(coll, idx) ==
    IF coll
    THEN [collection |-> TRUE, index |-> idx, raised |-> FALSE,
          calls |-> <<Called("qdrant.get_collection", TRUE)>>]
    ELSE [collection |-> TRUE, index |-> EmptyIndex, raised |-> FALSE,
          calls |-> <<Called("qdrant.get_collection", FALSE),
                      Called("qdrant.create_collection", TRUE)>>]

(***************************************************************************)
(* store_in_qdrant                                                         *)
(***************************************************************************)
Unknown == <<"u", "n", "k", "n", "o", "w", "n">>

\* dict.get(key, default)
Get(d, key, default) == IF key \in DOMAIN d THEN d[key] ELSE default

\* f"{doc['title']} {doc['content']}"
TextOf(doc) == doc.title \o <<" ">> \o doc.content

\* the loop written with enumerate(..., 1): ids 1 .. len(documents)
Points_FromOne(documents) ==
    [i \in 1..Len(documents) |->
        LET doc == documents[i]
        IN  [vector  |-> Embed(TextOf(doc)),
             payload |-> [title          |-> doc.title,
                          content        |-> doc.content,
                          url            |-> doc.url,
                          source         |-> Get(doc, "source", "unknown"),
                          published_date |-> Get(doc, "published_date", Unknown)]]]

\* the points built by the enumerate loop: ids 0 .. len(documents)-1
Points(documents) ==
    [i \in 0..(Len(documents) - 1) |->
        LET doc == documents[i + 1]
        IN  [vector  |-> Embed(TextOf(doc)),
             payload |-> [title          |-> doc.title,
                          content        |-> doc.content,
                          url            |-> doc.url,
                          source         |-> Get(doc, "source", "unknown"),
                          published_date |-> Get(doc, "published_date", Unknown)]]]

\* the method without its "if not documents: return"
store_in_qdrant_NoGuard(coll, idx, documents, enc_ok, svc_ok) ==
    IF ~enc_ok
    THEN [index |-> idx, calls |-> <<Called("encoder", FALSE)>>]
    ELSE IF ~(svc_ok /\ coll)
    THEN [index |-> idx,
          calls |-> <<Called("encoder", TRUE), Called("qdrant.upsert", FALSE)>>]
    ELSE [index |-> Upsert(idx, Points(documents)),
          calls |-> <<Called("encoder", TRUE), Called("qdrant.upsert", TRUE)>>]

\* the method with a second attempt after a failed upsert
store_in_qdrant_Retry(coll, idx, documents, enc_ok, svc_ok) ==
    IF documents = <<>>
    THEN [index |-> idx, calls |-> <<>>]
    ELSE IF ~enc_ok
    THEN [index |-> idx, calls |-> <<Called("encoder", FALSE)>>]
    ELSE IF ~(svc_ok /\ coll)
    THEN [index |-> IF coll THEN Upsert(idx, Points(documents)) ELSE idx,
          calls |-> <<Called("encoder", TRUE), Called("qdrant.upsert", FALSE),
                      Called("qdrant.upsert", coll)>>]
    ELSE [index |-> Upsert(idx, Points(documents)),
          calls |-> <<Called("encoder", TRUE), Called("qdrant.upsert", TRUE)>>]

\* enc_ok: the encoder call succeeds; svc_ok: the index request succeeds.
\* An upsert into a collection that does not exist fails at the service.
store_in_qdrant(coll, idx, documents, enc_ok, svc_ok) ==
    IF documents = <<>>
    THEN [index |-> idx, calls |-> <<>>]
    ELSE IF ~enc_ok
    THEN [index |-> idx, calls |-> <<Called("encoder", FALSE)>>]
    ELSE IF ~(svc_ok /\ coll)
    THEN [index |-> idx,
          calls |-> <<Called("encoder", TRUE), Called("qdrant.upsert", FALSE)>>]
    ELSE [index |-> Upsert(idx, Points(documents)),
          calls |-> <<Called("encoder", TRUE), Called("qdrant.upsert", TRUE)>>]

(***************************************************************************)
(* search_relevant_docs                                                    *)
(***************************************************************************)
\* the relevance threshold 0.3, in tenths
Threshold == 3

\* limit=top_k * 2
OverFetch == 2

\* the dict built from one hit
ScoredDocument(hit) ==
    [title           |-> hit.payload.title,
     content         |-> hit.payload.content,
     url             |-> hit.payload.url,
     source          |-> hit.payload.source,
     published_date  |-> Get(hit.payload, "published_date", Unknown),
     relevance_score |-> hit.score]

\* the gate written with >= : a hit scoring exactly 0.3 passes
Gate_AtLeast(docs) == SelectSeq(docs, LAMBDA doc : doc.relevance_score >= Threshold)

\* [doc for doc in relevant_docs if doc['relevance_score'] > 0.3]
Gate(docs) == SelectSeq(docs, LAMBDA doc : doc.relevance_score > Threshold)

\* the slice taken before the sort instead of after it
RankHits_SliceFirst(hits, top_k) ==
    SortByDateDesc(Take(Gate([n \in 1..Len(hits) |-> ScoredDocument(hits[n])]), top_k))

\* the part of the method after the index has answered
RankHits(hits, top_k) ==
    Take(SortByDateDesc(Gate([n \in 1..Len(hits) |-> ScoredDocument(hits[n])])), top_k)

search_relevant_docs(coll, idx, q, top_k, enc_ok, svc_ok, tie) ==
    IF ~enc_ok
    THEN [ret |-> <<>>, hits |-> <<>>, calls |-> <<Called("encoder", FALSE)>>]
    ELSE IF ~(svc_ok /\ coll)
    THEN [ret |-> <<>>, hits |-> <<>>,
          calls |-> <<Called("encoder", TRUE), Called("qdrant.search", FALSE)>>]
    ELSE LET hits == Search(idx, Embed(q), top_k * OverFetch, tie)
         IN  [ret |-> RankHits(hits, top_k), hits |-> hits,
              calls |-> <<Called("encoder", TRUE), Called("qdrant.search", TRUE)>>]

(***************************************************************************)
(* generate_report                                                         *)
(***************************************************************************)
\* documents[:6] go into the prompt
MaxContext == 6

None == [kind |-> "None"]

GroqOutcomes == {"ok", "http_error", "timeout", "malformed"}

\* outcome of the one POST: "ok", or the except clause that handles it
generate_report(q, documents, outcome) ==
    [ret |->
        CASE outcome = "ok" ->
                [kind |-> "generated", query |-> q, cited |-> Take(documents, MaxContext)]
          [] outcome = "http_error" ->
                [kind |-> "error", text |-> "Error generating report: <message>"]
          [] outcome = "timeout" ->
                [kind |-> "error",
                 text |-> "Error: AI service took too long to respond. Please try again."]
          [] outcome = "malformed" ->
                [kind |-> "error", text |-> "Error generating report: <exception>"],
     calls |-> <<Called("groq", outcome = "ok")>>]

(***************************************************************************)
(* run_full_research: one run per dispatched request                       *)
(***************************************************************************)
Runs == {"A", "B"}

\* fetch_arxiv_papers(query, max_results=20)
MaxResults == 20

\* search_relevant_docs(query, top_k=10)
TopK == 10

\* 'sources': relevant[:8]
MaxSources == 8

Queries == {<<"a">>, <<"b">>}

NoEvidence ==
    [status |-> "error", message |-> "No papers found in arXiv",
     report |-> None, sources |-> <<>>]

\* the result without the [:8] slice of the sources
Success_AllSources(rep, rel, fetched) ==
    [status |-> "success", report |-> rep, sources |-> rel,
     total_papers |-> Len(fetched), relevant_papers |-> Len(rel)]

Success(rep, rel, fetched) ==
    [status |-> "success", report |-> rep, sources |-> Take(rel, MaxSources),
     total_papers |-> Len(fetched), relevant_papers |-> Len(rel)]

Pending == [status |-> "pending"]

(***************************************************************************)
(* The bibliographic API as the runs see it: a corpus of papers, of which  *)
(* a response carries the first n, each as one <entry> of the feed.        *)
(***************************************************************************)
DigitTok == <<"0", "1", "2", "3", "4", "5", "6", "7", "8", "9">>

Digits(i) ==
    IF i < 10 THEN <<DigitTok[i + 1]>>
    ELSE <<DigitTok[(i \div 10) + 1], DigitTok[(i % 10) + 1]>>

\* 2024-01-01 .. 2024-05-01, not in date order along the corpus
CorpusDate(i) ==
    <<"2", "0", "2", "4", "-", "0", DigitTok[((i * 3) % 5) + 2], "-", "0", "1">>

\* the abstract decides the score: for query "a" most papers score 0.9 or
\* 0.6, every fifth scores exactly 0.3 or 0.0
CorpusSummary(i) ==
    IF i % 5 = 4
    THEN (IF i % 2 = 0 THEN <<"a">> ELSE <<"b", " ", "b">>)
    ELSE (IF i % 2 = 0 THEN <<"a", "\n", " ", "a">> ELSE <<"a", " ", "a", " ", "a">>)

CorpusEntry(i) ==
    <<"<entry>", "\n", "<id>", "u">> \o Digits(i) \o <<"</id>", "\n", "<published>">>
        \o CorpusDate(i) \o <<"T", "0", "0", "Z", "</published>", "\n", "<title>", "p">>
        \o Digits(i) \o <<"</title>", "\n", "<summary>", " ">> \o CorpusSummary(i)
        \o <<"\n", "</summary>", "\n">>

RECURSIVE Feed(_)
Feed(n) ==
    IF n = 0 THEN <<"<title>", "a", "</title>", "\n">>
    ELSE Feed(n - 1) \o CorpusEntry(n)

FeedSizes == {0, 2, Min(MaxFeed, MaxResults)}

ApiResponses ==
    {Response("timeout", <<>>), Response("http_error", <<>>)}
        \cup {Response("ok", Feed(n)) : n \in FeedSizes}

(***************************************************************************)
(* Steps of a run.  Each step is one collaborator call of the run together *)
(* with the code up to the next one.                                       *)
(***************************************************************************)
NoCall == [op |-> "none"]

\* the background task enters run_full_research(query)
Start(r) ==
    /\ pc[r] = "idle"
    /\ \E q \in Queries : query' = [query EXCEPT ![r] = q]
    /\ pc' = [pc EXCEPT ![r] = "fetch"]
    /\ UNCHANGED <<collection, index, call, papers, relevant, report, result, log>>

\* the fetch step without the "if not papers: return"
Fetch_NoEarlyReturn(r) ==
    /\ pc[r] = "fetch"
    /\ \E resp \in ApiResponses :
         LET f == fetch_arxiv_papers(resp)
         IN  /\ papers' = [papers EXCEPT ![r] = f.ret]
             /\ log' = [log EXCEPT ![r] = @ \o f.calls]
    /\ pc' = [pc EXCEPT ![r] = "store"]
    /\ UNCHANGED <<collection, index, call, query, relevant, report, result>>

\* papers = self.fetch_arxiv_papers(query, max_results=20); if not papers: return
Fetch(r) ==
    /\ pc[r] = "fetch"
    /\ \E resp \in ApiResponses :
         LET f == fetch_arxiv_papers(resp)
         IN  /\ papers' = [papers EXCEPT ![r] = f.ret]
             /\ log' = [log EXCEPT ![r] = @ \o f.calls]
             /\ IF f.ret = <<>>
                THEN /\ result' = [result EXCEPT ![r] = NoEvidence]
                     /\ pc' = [pc EXCEPT ![r] = "done"]
                ELSE /\ result' = result
                     /\ pc' = [pc EXCEPT ![r] = "store"]
    /\ UNCHANGED <<collection, index, call, query, relevant, report>>

\* the store step with the encoder call outside the try of store_in_qdrant: a
\* failed encoding ends the run with the exception
Store_Propagate(r) ==
    /\ pc[r] = "store"
    /\ \E enc_ok \in BOOLEAN, svc_ok \in BOOLEAN :
         LET s == store_in_qdrant(collection, index, papers[r], enc_ok, svc_ok)
         IN  /\ index' = s.index
             /\ log' = [log EXCEPT ![r] = @ \o s.calls]
             /\ IF enc_ok
                THEN /\ pc' = [pc EXCEPT ![r] = "search"]
                     /\ result' = result
                ELSE /\ pc' = [pc EXCEPT ![r] = "done"]
                     /\ result' = [result EXCEPT ![r] = [status |-> "raised"]]
    /\ UNCHANGED <<collection, call, query, papers, relevant, report>>

\* self.store_in_qdrant(papers)
Store(r) ==
    /\ pc[r] = "store"
    /\ \E enc_ok \in BOOLEAN, svc_ok \in BOOLEAN :
         LET s == store_in_qdrant(collection, index, papers[r], enc_ok, svc_ok)
         IN  /\ index' = s.index
             /\ log' = [log EXCEPT ![r] = @ \o s.calls]
    /\ pc' = [pc EXCEPT ![r] = "search"]
    /\ UNCHANGED <<collection, call, query, papers, relevant, report, result>>

\* the search step without the try/except inside search_relevant_docs: a failed
\* encoder or index call ends the run with the exception
SearchStep_Propagate(r) ==
    /\ pc[r] = "search"
    /\ \E enc_ok \in BOOLEAN, svc_ok \in BOOLEAN, tie \in {"up", "down"} :
         LET s == search_relevant_docs(collection, index, query[r], TopK, enc_ok, svc_ok, tie)
         IN  /\ relevant' = [relevant EXCEPT ![r] = s.ret]
             /\ log' = [log EXCEPT ![r] = @ \o s.calls]
             /\ IF enc_ok /\ svc_ok
                THEN /\ pc' = [pc EXCEPT ![r] = "generate"]
                     /\ result' = result
                ELSE /\ pc' = [pc EXCEPT ![r] = "done"]
                     /\ result' = [result EXCEPT ![r] = [status |-> "raised"]]
    /\ UNCHANGED <<collection, index, call, query, papers, report>>

\* relevant = self.search_relevant_docs(query, top_k=10)
SearchStep(r) ==
    /\ pc[r] = "search"
    /\ \E enc_ok \in BOOLEAN, svc_ok \in BOOLEAN, tie \in {"up", "down"} :
         LET s == search_relevant_docs(collection, index, query[r], TopK, enc_ok, svc_ok, tie)
         IN  /\ relevant' = [relevant EXCEPT ![r] = s.ret]
             /\ log' = [log EXCEPT ![r] = @ \o s.calls]
    /\ pc' = [pc EXCEPT ![r] = "generate"]
    /\ UNCHANGED <<collection, index, call, query, papers, report, result>>

\* report = self.generate_report(query, relevant); return {...}
Generate(r) ==
    /\ pc[r] = "generate"
    /\ \E outcome \in GroqOutcomes :
         LET g == generate_report(query[r], relevant[r], outcome)
         IN  /\ report' = [report EXCEPT ![r] = g.ret]
             /\ result' = [result EXCEPT ![r] = Success(g.ret, relevant[r], papers[r])]
             /\ log' = [log EXCEPT ![r] = @ \o g.calls]
    /\ pc' = [pc EXCEPT ![r] = "done"]
    /\ UNCHANGED <<collection, index, call, query, papers, relevant>>

(***************************************************************************)
(* process_research_task and send_research_report                          *)
(***************************************************************************)
\* sources[:6] are listed in the e-mail
MaxListed == 6

\* outcome of the one POST to the mail service: status 200, another status,
\* or an exception raised by the request
ResendOutcomes == {"sent", "rejected", "raised"}

send_research_report(to_email, q, rep, sources, outcome) ==
    [ret    |-> outcome = "sent",
     listed |-> Take(sources, MaxListed),
     calls  |-> <<Called("resend", outcome = "sent")>>]

\* a task that mails whatever run_full_research returned, without looking at
\* the status
Deliver_Ungated(r) ==
    /\ pc[r] = "done"
    /\ \E outcome \in ResendOutcomes :
         LET m == send_research_report("to", query[r], result[r].report, result[r].sources, outcome)
         IN  log' = [log EXCEPT ![r] = @ \o m.calls]
    /\ pc' = [pc EXCEPT ![r] = "finished"]
    /\ UNCHANGED <<collection, index, call, query, papers, relevant, report, result>>

\* the rest of process_research_task once run_full_research has returned: the
\* report is mailed when the status is success, the outcome is only printed
Deliver(r) ==
    /\ pc[r] = "done"
    /\ IF result[r].status = "success"
       THEN \E outcome \in ResendOutcomes :
              LET m == send_research_report("to", query[r], result[r].report, result[r].sources, outcome)
              IN  log' = [log EXCEPT ![r] = @ \o m.calls]
       ELSE log' = log
    /\ pc' = [pc EXCEPT ![r] = "finished"]
    /\ UNCHANGED <<collection, index, call, query, papers, relevant, report, result>>

RunsIdle ==
    /\ pc = [r \in Runs |-> "idle"]
    /\ query = [r \in Runs |-> <<>>]
    /\ papers = [r \in Runs |-> <<>>]
    /\ relevant = [r \in Runs |-> <<>>]
    /\ report = [r \in Runs |-> None]
    /\ result = [r \in Runs |-> Pending]
    /\ log = [r \in Runs |-> <<>>]

\* the state after ResearchEngine() has been constructed on a fresh store
Init ==
    /\ collection = TRUE
    /\ index = EmptyIndex
    /\ call = NoCall
    /\ RunsIdle

Next ==
    \E r \in Runs : Start(r) \/ Fetch(r) \/ Store(r) \/ SearchStep(r) \/ Generate(r)

Spec == Init /\ [][Next]_vars

(***************************************************************************)
(* One background task from dispatch to its end (SpecTask).  Every step is *)
(* a synchronous call with a timeout of its own, so a step that is enabled *)
(* is eventually taken (FairSpecTask).                                     *)
(***************************************************************************)
Tasks == {"A"}

NextTask ==
    \E r \in Tasks :
        Start(r) \/ Fetch(r) \/ Store(r) \/ SearchStep(r) \/ Generate(r) \/ Deliver(r)

SpecTask == Init /\ [][NextTask]_vars

FairSpecTask == SpecTask /\ WF_vars(NextTask)

(***************************************************************************)
(* Direct calls of the index-facing methods (SpecIndex): the collection    *)
(* holds what an earlier store_in_qdrant left there, and _setup_collection,*)
(* store_in_qdrant or search_relevant_docs is called with any arguments.   *)
(***************************************************************************)
TestTitles == {<<"a", "a", "a">>, <<"a", "a">>, <<"a">>}

TestDates == {<<"2", "0", "2", "3", "-", "1", "2", "-", "3", "1">>,
              <<"2", "0", "2", "4", "-", "0", "1", "-", "0", "1">>}

\* the i-th document of a batch; a document may come without published_date
TestDocs(i) ==
    {[title |-> t, content |-> <<"p">>, url |-> <<"u">> \o Digits(i), source |-> "arXiv",
      published_date |-> d] : t \in TestTitles, d \in TestDates}
    \cup
    {[title |-> t, content |-> <<"p">>, url |-> <<"u">> \o Digits(i), source |-> "arXiv"] :
        t \in TestTitles}

DocLists(n) ==
    UNION {{docs \in [1..k -> UNION {TestDocs(i) : i \in 1..k}] :
                \A i \in 1..k : docs[i] \in TestDocs(i)} : k \in 0..n}

CallSetupCollection ==
    /\ call.op \in {"none", "_setup_collection"}
    /\ call.op = "_setup_collection" => call.nth < 2
    /\ LET s == _setup_collection(collection, index)
       IN  /\ collection' = s.collection
           /\ index' = s.index
           /\ call' = [op |-> "_setup_collection",
                       nth |-> IF call.op = "none" THEN 1 ELSE call.nth + 1,
                       raised |-> s.raised, calls |-> s.calls]
    /\ UNCHANGED <<pc, query, papers, relevant, report, result, log>>

CallStoreInQdrant ==
    /\ call.op = "none"
    /\ \E documents \in DocLists(MaxBatch), enc_ok \in BOOLEAN, svc_ok \in BOOLEAN :
         LET s == store_in_qdrant(collection, index, documents, enc_ok, svc_ok)
         IN  /\ index' = s.index
             /\ call' = [op |-> "store_in_qdrant", documents |-> documents,
                         raised |-> FALSE, calls |-> s.calls]
    /\ UNCHANGED <<collection, pc, query, papers, relevant, report, result, log>>

CallSearchRelevantDocs ==
    /\ call.op = "none"
    /\ \E q \in Queries, top_k \in 1..MaxTopK, enc_ok \in BOOLEAN, svc_ok \in BOOLEAN,
          tie \in {"up", "down"} :
         LET s == search_relevant_docs(collection, index, q, top_k, enc_ok, svc_ok, tie)
         IN  call' = [op |-> "search_relevant_docs", query |-> q, top_k |-> top_k,
                      hits |-> s.hits, ret |-> s.ret, raised |-> FALSE, calls |-> s.calls]
    /\ UNCHANGED <<collection, index, pc, query, papers, relevant, report, result, log>>

\* a store without the collection, or the collection with the points of an
\* earlier batch
InitIndex ==
    /\ \/ collection = FALSE /\ index = EmptyIndex
       \/ collection = TRUE /\ index \in {Upsert(EmptyIndex, Points(docs)) : docs \in DocLists(MaxDocs)}
    /\ call = NoCall
    /\ RunsIdle

NextIndex == CallSetupCollection \/ CallStoreInQdrant \/ CallSearchRelevantDocs

SpecIndex == InitIndex /\ [][NextIndex]_vars

(***************************************************************************)
(* Direct calls of fetch_arxiv_papers (SpecFetch) on any response whose    *)
(* entries carry, lack or garble each of the four fields.                  *)
(***************************************************************************)
TitleParts ==
    {<<>>,
     <<"<title>", "</title>">>,
     <<"<title>", " ", "\n", "</title>">>,
     <<"<title>", "\n", "a", " ", " ", "b", "\n", "</title>">>,
     <<"<title>", "a">>}

SummaryParts ==
    {<<>>,
     <<"<summary>", "</summary>">>,
     <<"<summary>", " ", "a", "\n", "a", "</summary>">>}

IdParts ==
    {<<>>,
     <<"<id>", " ", "</id>">>,
     <<"<id>", "u", "1", "</id>">>}

PublishedParts ==
    {<<>>,
     <<"<published>", "</published>">>,
     <<"<published>", "2", "0", "2", "4", "-", "0", "1", "-", "0", "1", "T", "0", "0", "Z",
       "</published>">>,
     <<"<published>", "n", "o", "w", "</published>">>}

TestEntries ==
    {<<"<entry>">> \o i \o p \o t \o s :
        i \in IdParts, p \in PublishedParts, t \in TitleParts, s \in SummaryParts}

RECURSIVE Concat(_)
Concat(parts) == IF parts = <<>> THEN <<>> ELSE parts[1] \o Concat(Tail(parts))

TestFeeds ==
    {<<"<title>", "a", "</title>">> \o Concat(es) :
        es \in UNION {[1..k -> TestEntries] : k \in 0..MaxEntries}}

TestResponses ==
    {Response("timeout", <<>>), Response("http_error", <<>>)}
        \cup {Response("ok", text) : text \in TestFeeds}

CallFetchArxivPapers ==
    /\ call.op = "none"
    /\ \E resp \in TestResponses :
         LET f == fetch_arxiv_papers(resp)
         IN  call' = [op |-> "fetch_arxiv_papers", response |-> resp, ret |-> f.ret,
                      raised |-> FALSE, calls |-> f.calls]
    /\ UNCHANGED <<collection, index, pc, query, papers, relevant, report, result, log>>

NextFetch == CallFetchArxivPapers

SpecFetch == Init /\ [][NextFetch]_vars

(***************************************************************************)
(* Vocabulary of the properties                                            *)
(***************************************************************************)
IsDigit(tok) == \E n \in 1..10 : DigitTok[n] = tok

DigitVal(tok) == (CHOOSE n \in 1..10 : DigitTok[n] = tok) - 1

\* d has the form YYYY-MM-DD
IsDate(d) ==
    /\ Len(d) = 10
    /\ d[5] = "-" /\ d[8] = "-"
    /\ \A n \in {1, 2, 3, 4, 6, 7, 9, 10} : IsDigit(d[n])

\* the calendar day a YYYY-MM-DD date names, as the number YYYYMMDD
DayNumber(d) ==
    10000 * (1000 * DigitVal(d[1]) + 100 * DigitVal(d[2]) + 10 * DigitVal(d[3]) + DigitVal(d[4]))
        + 100 * (10 * DigitVal(d[6]) + DigitVal(d[7]))
        + 10 * DigitVal(d[9]) + DigitVal(d[10])

\* recency of a document date: the calendar day of a known date; the sentinel
\* "unknown" carries no day and is ranked ahead of every day, where the
\* descending sort of the date strings puts it
Recency(d) == IF IsDate(d) THEN DayNumber(d) ELSE 100000000

SearchReturned == call.op = "search_relevant_docs"

\* the hits of the last direct search that pass the relevance gate
Survivors == SelectSeq(call.hits, LAMBDA hit : hit.score > 3)

\* position in the hits of the returned document n (urls are unique per point)
HitOf(n) == CHOOSE h \in 1..Len(call.hits) : call.hits[h].payload.url = call.ret[n].url

Attempted(r, svc) == \E n \in 1..Len(log[r]) : log[r][n].svc = svc

Failed(r, svc) == \E n \in 1..Len(log[r]) : log[r][n] = Called(svc, FALSE)

ExternalLog(r) == SelectSeq(log[r], LAMBDA c : c.svc \in External)

(***************************************************************************)
(* C1  Ranker gate: every document search_relevant_docs returns has a      *)
(* relevance score strictly above 0.3, and no hit that scored 0.3 or less  *)
(* is among the returned documents.                                        *)
(***************************************************************************)
C1_RankerGate ==
    SearchReturned =>
        /\ \A n \in 1..Len(call.ret) : call.ret[n].relevance_score > 3
        /\ \A h \in 1..Len(call.hits) :
              call.hits[h].score <= 3 =>
                  \A n \in 1..Len(call.ret) : call.ret[n].url # call.hits[h].payload.url

\* a search whose hits hold a point scoring exactly 0.3 next to returned ones
C1_Witness ==
    /\ SearchReturned
    /\ call.ret # <<>>
    /\ \E h \in 1..Len(call.hits) : call.hits[h].score = 3

(***************************************************************************)
(* C2  Ranker ordering: adjacent returned documents with known dates are   *)
(* in descending calendar order, and returned documents with equal dates   *)
(* keep the relative order the index returned them in.                     *)
(***************************************************************************)
C2_RankerOrdering ==
    SearchReturned =>
        /\ \A n \in 1..(Len(call.ret) - 1) :
              (IsDate(call.ret[n].published_date) /\ IsDate(call.ret[n + 1].published_date))
                  => DayNumber(call.ret[n].published_date) >= DayNumber(call.ret[n + 1].published_date)
        /\ \A m, n \in 1..Len(call.ret) :
              (m < n /\ call.ret[m].published_date = call.ret[n].published_date)
                  => HitOf(m) < HitOf(n)

\* the sort moved a later-dated hit ahead of an earlier-dated one and left two
\* hits of one date in place
C2_Witness ==
    /\ SearchReturned
    /\ \E m, n \in 1..Len(call.ret) :
          /\ m < n
          /\ IsDate(call.ret[m].published_date) /\ IsDate(call.ret[n].published_date)
          /\ call.ret[m].published_date # call.ret[n].published_date
          /\ HitOf(m) > HitOf(n)
    /\ \E m, n \in 1..Len(call.ret) :
          m < n /\ call.ret[m].published_date = call.ret[n].published_date

(***************************************************************************)
(* C3  Result size and selection: search_relevant_docs returns at most     *)
(* top_k documents; with fewer than top_k survivors of the gate it returns *)
(* exactly the survivors; with at least top_k it returns exactly top_k of  *)
(* them, in descending date order, none older than a survivor left out.    *)
(***************************************************************************)
C3_SizeAndSelection ==
    SearchReturned =>
        LET surv == Survivors
            k    == call.top_k
            \* each returned document is a survivor, and none is returned twice
            FromSurvivors ==
                /\ \A n \in 1..Len(call.ret) :
                      \E h \in 1..Len(surv) :
                          /\ surv[h].payload.url = call.ret[n].url
                          /\ surv[h].payload.title = call.ret[n].title
                          /\ surv[h].score = call.ret[n].relevance_score
                /\ \A m, n \in 1..Len(call.ret) : m # n => call.ret[m].url # call.ret[n].url
            Returned(h) == \E n \in 1..Len(call.ret) : call.ret[n].url = surv[h].payload.url
        IN  /\ Len(call.ret) <= k
            /\ FromSurvivors
            /\ Len(surv) < k => Len(call.ret) = Len(surv)
            /\ Len(surv) >= k =>
                  /\ Len(call.ret) = k
                  /\ \A n \in 1..(Len(call.ret) - 1) :
                        Recency(call.ret[n].published_date) >= Recency(call.ret[n + 1].published_date)
                  /\ \A h \in 1..Len(surv) :
                        ~Returned(h) =>
                            \A n \in 1..Len(call.ret) :
                                Recency(call.ret[n].published_date)
                                    >= Recency(Get(surv[h].payload, "published_date", Unknown))

\* more survivors than top_k, the one left out older than a returned one that
\* the index had ranked below it
C3_Witness ==
    /\ SearchReturned
    /\ Len(Survivors) > call.top_k
    /\ Len(call.ret) = call.top_k
    /\ \E h \in 1..Len(Survivors), n \in 1..Len(call.ret) :
          /\ \A m \in 1..Len(call.ret) : call.ret[m].url # Survivors[h].payload.url
          /\ HitOf(n) > h
          /\ IsDate(Survivors[h].payload.published_date)
          /\ IsDate(call.ret[n].published_date)

(***************************************************************************)
(* C4  NoEvidence: a run whose fetch yielded no document (no entry, or the *)
(* API call failed) ends with an error result, sources [] and no report,   *)
(* has called neither the encoder, the index nor the summarizer, and its   *)
(* fetch step leaves the index as it was.                                  *)
(***************************************************************************)
C4_NoEvidence ==
    /\ [](\A r \in Runs :
            (pc[r] \notin {"idle", "fetch"} /\ papers[r] = <<>>) =>
                /\ pc[r] = "done"
                /\ result[r].status = "error"
                /\ result[r].sources = <<>>
                /\ result[r].report = None
                /\ \A n \in 1..Len(log[r]) : log[r][n].svc = "arxiv")
    /\ [][\A r \in Runs :
            (pc[r] = "fetch" /\ pc'[r] # "fetch" /\ papers'[r] = <<>>) =>
                (index' = index /\ collection' = collection)]_vars

\* a run ended without evidence after a failed API call while the index holds
\* the points of another run
C4_Witness ==
    \E r \in Runs :
        /\ pc[r] = "done"
        /\ log[r] = <<Called("arxiv", FALSE)>>
        /\ result[r].status = "error"
        /\ index # EmptyIndex

(***************************************************************************)
(* C5  Degraded success: a run that fetched at least one document and      *)
(* whose summarization call failed still returns status success, with an   *)
(* explanatory error string as report and the first 8 documents of the     *)
(* ranker's result as sources.                                             *)
(***************************************************************************)
C5_DegradedSuccess ==
    \A r \in Runs :
        (pc[r] = "done" /\ papers[r] # <<>> /\ Failed(r, "groq")) =>
            /\ result[r].status = "success"
            /\ result[r].report.kind = "error"
            /\ result[r].report = report[r]
            /\ Len(result[r].sources) = Min(8, Len(relevant[r]))
            /\ \A n \in 1..Len(result[r].sources) : result[r].sources[n] = relevant[r][n]

\* the summarizer timed out in a run whose ranker returned more than 8 documents
C5_Witness ==
    \E r \in Runs :
        /\ pc[r] = "done"
        /\ Failed(r, "groq")
        /\ Len(relevant[r]) > 8
        /\ result[r].report.text = "Error: AI service took too long to respond. Please try again."

(***************************************************************************)
(* C6  ensure_collection idempotence: a second _setup_collection raises    *)
(* nothing, creates no collection and leaves the collection and its points *)
(* as the first call left them.                                            *)
(***************************************************************************)
C6_SetupIdempotent ==
    [][(call.op = "_setup_collection" /\ call'.op = "_setup_collection") =>
          /\ collection' = collection
          /\ index' = index
          /\ ~call'.raised
          /\ \A n \in 1..Len(call'.calls) : call'.calls[n].svc # "qdrant.create_collection"]_vars

\* the second call on a collection that holds points
C6_Witness ==
    /\ call.op = "_setup_collection"
    /\ call.nth = 2
    /\ collection
    /\ index # EmptyIndex

(***************************************************************************)
(* C7  Empty-input short circuit: store_in_qdrant([]) calls neither the    *)
(* encoder nor the index, leaves the index unchanged and raises nothing.   *)
(***************************************************************************)
C7_EmptyStoreShortCircuit ==
    [][(call'.op = "store_in_qdrant" /\ call.op = "none" /\ call'.documents = <<>>) =>
          /\ call'.calls = <<>>
          /\ index' = index
          /\ collection' = collection
          /\ ~call'.raised]_vars

\* store_in_qdrant([]) has returned on a collection that holds points
C7_Witness ==
    /\ call.op = "store_in_qdrant"
    /\ call.documents = <<>>
    /\ index # EmptyIndex

(***************************************************************************)
(* C8  Fetcher document invariant: every document fetch_arxiv_papers       *)
(* returns has a non-empty title, content and url and a published_date of  *)
(* the form YYYY-MM-DD or "unknown".                                       *)
(***************************************************************************)
C8_FetcherDocumentInvariant ==
    call.op = "fetch_arxiv_papers" =>
        \A n \in 1..Len(call.ret) :
            /\ call.ret[n].title # <<>>
            /\ call.ret[n].content # <<>>
            /\ call.ret[n].url # <<>>
            /\ (IsDate(call.ret[n].published_date) \/ call.ret[n].published_date = Unknown)

(***************************************************************************)
(* C9  No retries: a run attempts the external calls fetch, upsert,        *)
(* search, summarize in that order and none of them twice, whether or not  *)
(* the call failed; a finished run that fetched documents and encoded them *)
(* attempted each of the four exactly once.                                *)
(***************************************************************************)
CallOrder(svc) ==
    CASE svc = "arxiv" -> 1
      [] svc = "qdrant.upsert" -> 2
      [] svc = "qdrant.search" -> 3
      [] svc = "groq" -> 4

C9_NoRetries ==
    \A r \in Runs :
        LET ext == ExternalLog(r)
        IN  /\ \A m, n \in 1..Len(ext) : m < n => CallOrder(ext[m].svc) < CallOrder(ext[n].svc)
            /\ (pc[r] = "done" /\ papers[r] # <<>> /\ ~Failed(r, "encoder")) =>
                   /\ Len(ext) = 4
                   /\ \A n \in 1..4 : CallOrder(ext[n].svc) = n
            /\ (pc[r] = "done" /\ papers[r] = <<>>) =>
                   (Len(ext) = 1 /\ ext[1].svc = "arxiv")

\* a finished run whose upsert and search both failed
C9_Witness ==
    \E r \in Runs :
        /\ pc[r] = "done"
        /\ Failed(r, "qdrant.upsert")
        /\ Failed(r, "qdrant.search")
        /\ Len(ExternalLog(r)) = 4

(***************************************************************************)
(* C10  Index failure does not fail the run: a run that fetched documents  *)
(* and whose upsert or search failed still calls the summarizer and        *)
(* returns status success, with no sources and a relevant count of 0 when  *)
(* the search failed; a failed upsert leaves the index as it was.          *)
(***************************************************************************)
C10_IndexFailureTolerated ==
    /\ [](\A r \in Runs :
            (pc[r] = "done" /\ papers[r] # <<>>
                /\ (Failed(r, "qdrant.upsert") \/ Failed(r, "qdrant.search"))) =>
                /\ result[r].status = "success"
                /\ Attempted(r, "groq")
                /\ Failed(r, "qdrant.search") =>
                       (result[r].sources = <<>> /\ result[r].relevant_papers = 0))
    /\ [][\A r \in Runs :
            (pc[r] = "store" /\ pc'[r] # "store" /\ Failed(r, "qdrant.upsert")') =>
                index' = index]_vars

\* a run succeeded although its search failed on an index that holds points
C10_Witness ==
    \E r \in Runs :
        /\ pc[r] = "done"
        /\ result[r].status = "success"
        /\ Failed(r, "qdrant.search")
        /\ ~Failed(r, "qdrant.upsert")
        /\ index # EmptyIndex

(***************************************************************************)
(* C11  Encoder failure is fatal to the run: a run in which the encoder    *)
(* failed, on the fetched documents or on the query, does not return a     *)
(* success result.                                                         *)
(***************************************************************************)
C11_EncoderFailureFatal ==
    \A r \in Runs :
        (pc[r] = "done" /\ Failed(r, "encoder")) => result[r].status # "success"

(***************************************************************************)
(* C11 as amended: an encoder failure is caught inside store_in_qdrant and *)
(* search_relevant_docs.  The index call that would have followed it is    *)
(* not attempted, a failed encoding of the documents leaves the index as   *)
(* it was, a failed encoding of the query yields no relevant documents,    *)
(* and the run goes on to the summarizer and returns status success.       *)
(***************************************************************************)
EncoderFailedAt(r, n) == n \in 1..Len(log[r]) /\ log[r][n] = Called("encoder", FALSE)

C11_EncoderFailureSwallowed ==
    /\ [](\A r \in Runs :
            /\ \A n \in 1..Len(log[r]) :
                  (EncoderFailedAt(r, n) /\ n < Len(log[r])) =>
                      log[r][n + 1].svc \notin {"qdrant.upsert", "qdrant.search"}
            /\ (pc[r] = "done" /\ Failed(r, "encoder")) =>
                  /\ result[r].status = "success"
                  /\ Attempted(r, "groq")
                  /\ result[r].total_papers = Len(papers[r])
            /\ (pc[r] = "done" /\ Failed(r, "encoder") /\ ~Attempted(r, "qdrant.search")) =>
                  (result[r].sources = <<>> /\ result[r].relevant_papers = 0))
    /\ [][\A r \in Runs :
            (pc[r] = "store" /\ pc'[r] # "store" /\ ~Attempted(r, "qdrant.upsert")') =>
                index' = index]_vars

\* a run returned success with sources although encoding its documents failed
C11_Witness ==
    \E r \in Runs :
        /\ pc[r] = "done"
        /\ result[r].status = "success"
        /\ log[r][2] = Called("encoder", FALSE)
        /\ ~Attempted(r, "qdrant.upsert")
        /\ Attempted(r, "qdrant.search")
        /\ result[r].sources # <<>>

(***************************************************************************)
(* C12  No isolation between runs on the shared index: every run writes    *)
(* its batch of N <= 20 papers under the ids 0..N-1, whatever another run  *)
(* stored there, so the index never holds more than 20 points and its ids  *)
(* stay within 0..19; an execution in which the other run's upsert         *)
(* replaces points of a run before that run searches is reachable (the     *)
(* witness).                                                               *)
(***************************************************************************)
Urls(docs) == {docs[n].url : n \in 1..Len(docs)}

C12_SharedIds ==
    /\ [](/\ Ids(index) \subseteq 0..19
          /\ Cardinality(Ids(index)) <= 20)
    /\ [][\A r \in Runs :
            (pc[r] = "store" /\ pc'[r] # "store" /\ log'[r][Len(log'[r])] = Called("qdrant.upsert", TRUE)) =>
                /\ Len(papers[r]) <= 20
                /\ \A i \in 0..(Len(papers[r]) - 1) :
                      /\ i \in Ids(index')
                      /\ index'[i].payload.url = papers[r][i + 1].url
                /\ \A i \in Ids(index') :
                      i >= Len(papers[r]) => (i \in Ids(index) /\ index'[i] = index[i])]_vars

\* a run stored its papers and searched, and a paper it stored that passes the
\* gate for its query and is dated later than its last result is not among its
\* results: the other run had overwritten the point in between
C12_Witness ==
    \E r \in Runs :
        /\ pc[r] = "done"
        /\ \E n \in 1..Len(log[r]) : log[r][n] = Called("qdrant.upsert", TRUE)
        /\ \E n \in 1..Len(log[r]) : log[r][n] = Called("qdrant.search", TRUE)
        /\ relevant[r] # <<>>
        /\ \E n \in 1..Len(papers[r]) :
              /\ Score(Embed(query[r]), Embed(TextOf(papers[r][n]))) > 3
              /\ StrLess(relevant[r][Len(relevant[r])].published_date, papers[r][n].published_date)
              /\ papers[r][n].url \notin Urls(relevant[r])
              /\ papers[r][n].url \notin Urls(result[r].sources)

(***************************************************************************)
(* C13  Delivery gating: a task attempts the e-mail delivery at most once, *)
(* only after run_full_research has returned and only for a success        *)
(* result; the delivery step changes neither the result nor the index and  *)
(* makes no further research call, whatever its outcome; a finished task   *)
(* does nothing more; and every dispatched task finishes.                  *)
(***************************************************************************)
Deliveries(r) == SelectSeq(log[r], LAMBDA c : c.svc = "resend")

C13_DeliveryGating ==
    /\ [](\A r \in Runs :
            /\ Len(Deliveries(r)) <= 1
            /\ Attempted(r, "resend") =>
                  /\ pc[r] = "finished"
                  /\ result[r].status = "success"
                  /\ Attempted(r, "groq")
                  /\ log[r][Len(log[r])].svc = "resend"
            /\ (pc[r] = "finished" /\ result[r].status = "error") => ~Attempted(r, "resend"))
    /\ [][\A r \in Runs :
            (pc[r] = "done" /\ pc'[r] # "done") =>
                /\ pc'[r] = "finished"
                /\ result' = result /\ index' = index /\ collection' = collection
                /\ papers' = papers /\ relevant' = relevant /\ report' = report
                /\ ExternalLog(r)' = ExternalLog(r)]_vars
    /\ [][\A r \in Runs :
            pc[r] = "finished" => (pc'[r] = "finished" /\ log'[r] = log[r])]_vars
    /\ \A r \in Runs : (pc[r] # "idle") ~> (pc[r] = "finished")

\* a task finished after its one delivery attempt failed
C13_Witness ==
    \E r \in Runs :
        /\ pc[r] = "finished"
        /\ result[r].status = "success"
        /\ Deliveries(r) = <<Called("resend", FALSE)>>

====
